---- MODULE Spec2Model ----
(***************************************************************************)
(* Model of src/main.rs: the Controller that diffs HID input snapshots     *)
(* against its stored bitmasks and injects key-down / key-up events, and   *)
(* the poll loop that drives it.                                           *)
(*                                                                         *)
(* The key-injection collaborator (tfc::Context) is modelled as the host   *)
(* key state (per key, the direction of the last event that was injected), *)
(* the list of events injected by the current update, and the position of  *)
(* the injection attempt that fails (0: none fails).  A failed injection   *)
(* leaves the host key state as it was.                                    *)
(***************************************************************************)
EXTENDS Integers, Sequences, FiniteSets, TLC

VARIABLES
    state,      \* Controller.state: [buttons, extra, dpad], each a u8
    host,       \* host key state: key -> "up" | "down"
    events,     \* key events injected by the last update call, in order
    last,       \* the last operation on the Controller
    prev,       \* the operation before it
    trace,      \* the operations since Controller::new(), kept for the first TraceLen
    nOps,       \* number of operations since Controller::new(), capped at TraceLen + 1
    i,          \* poll: the u8 cycle counter
    cyc,        \* poll: what the last completed iteration did
    window,     \* poll: whether the counter-triggered clear fired, for the last ResyncPeriod iterations
    stable,     \* poll: consecutive cycles that processed the snapshot cyc.input, capped
    det,        \* the handler call made on its own: group, observed byte, returned mask
    disc        \* open_target: the enumerated devices and what the call did

vars == <<state, host, events, last, prev, trace, nOps, i, cyc, window, stable, det, disc>>

----------------------------------------------------------------------------
(* Bounds of the model *)

\* the failing injection attempt of an update is one of the first MaxFail
MaxFail == 2
\* number of operations after Controller::new() that trace records
TraceLen == 3
\* number of devices the enumeration lists at most
MaxDevices == 4

----------------------------------------------------------------------------
(* u8 arithmetic *)

Byte == 256

RECURSIVE BitAndN(_, _, _)
BitAndN(a, b, n) ==
    IF n = 0 THEN 0
    ELSE (a % 2) * (b % 2) + 2 * BitAndN(a \div 2, b \div 2, n - 1)

RECURSIVE BitXorN(_, _, _)
BitXorN(a, b, n) ==
    IF n = 0 THEN 0
    ELSE (((a % 2) + (b % 2)) % 2) + 2 * BitXorN(a \div 2, b \div 2, n - 1)

RECURSIVE BitOrN(_, _, _)
BitOrN(a, b, n) ==
    IF n = 0 THEN 0
    ELSE (IF (a % 2) + (b % 2) > 0 THEN 1 ELSE 0) + 2 * BitOrN(a \div 2, b \div 2, n - 1)

AndTab == [a \in 0..(Byte - 1) |-> [b \in 0..(Byte - 1) |-> BitAndN(a, b, 8)]]
BitAnd(a, b) == AndTab[a][b]
XorTab == [a \in 0..(Byte - 1) |-> [b \in 0..(Byte - 1) |-> BitXorN(a, b, 8)]]
BitXor(a, b) == XorTab[a][b]
OrTab == [a \in 0..(Byte - 1) |-> [b \in 0..(Byte - 1) |-> BitOrN(a, b, 8)]]
BitOr(a, b) == OrTab[a][b]

----------------------------------------------------------------------------
(* The fixed mapping tables: logical bit -> key, in the order the handlers *)
(* test them.                                                              *)

ButtonsTable ==
    << [bit |-> 1,   key |-> "P"], [bit |-> 2,   key |-> "O"],
       [bit |-> 4,   key |-> "I"], [bit |-> 8,   key |-> "U"],
       [bit |-> 16,  key |-> "Y"], [bit |-> 32,  key |-> "T"],
       [bit |-> 64,  key |-> "R"], [bit |-> 128, key |-> "E"] >>

ExtraTable ==
    << [bit |-> 1, key |-> "L"], [bit |-> 2, key |-> "K"],
       [bit |-> 4, key |-> "J"], [bit |-> 8, key |-> "H"],
       [bit |-> 16, key |-> "G"] >>

DpadTable ==
    << [bit |-> 1, key |-> "W"], [bit |-> 4, key |-> "S"],
       [bit |-> 8, key |-> "A"], [bit |-> 2, key |-> "D"] >>

TableKeys(table) == {table[k].key : k \in 1..Len(table)}

Keys == TableKeys(ButtonsTable) \cup TableKeys(ExtraTable) \cup TableKeys(DpadTable)

\* Dpad enum values
DpadOff == 0
DpadU == 1
DpadR == 2
DpadD == 4
DpadL == 8
DpadUR == 3
DpadDR == 6
DpadUL == 9
DpadDL == 12

\* the conversion with every unlisted code taken as up
convert_dpad_default_up(dpad) ==
    CASE dpad = 0 -> DpadU
      [] dpad = 1 -> DpadUR
      [] dpad = 2 -> DpadR
      [] dpad = 3 -> DpadDR
      [] dpad = 4 -> DpadD
      [] dpad = 5 -> DpadDL
      [] dpad = 6 -> DpadL
      [] dpad = 7 -> DpadUL
      [] OTHER -> DpadU

convert_dpad(dpad) ==
    CASE dpad = 0 -> DpadU
      [] dpad = 1 -> DpadUR
      [] dpad = 2 -> DpadR
      [] dpad = 3 -> DpadDR
      [] dpad = 4 -> DpadD
      [] dpad = 5 -> DpadDL
      [] dpad = 6 -> DpadL
      [] dpad = 7 -> DpadUL
      [] OTHER -> DpadOff

\* Input::default(): the neutral snapshot (the stick bytes are never read by
\* the Controller and are left out of the snapshot)
InputDefault == [buttons |-> 0, extra |-> 0, dpad |-> 15]

\* State::new()
StateNew == [buttons |-> 0, extra |-> 0, dpad |-> 0]

----------------------------------------------------------------------------
(* The key-injection context *)

NewCtx(h, failAt) == [host |-> h, events |-> << >>, attempts |-> 0, failAt |-> failAt]

\* ctx.key_down(key) / ctx.key_up(key): the failAt-th attempt of an update fails
Inject(ctx, key, dir) ==
    LET n == ctx.attempts + 1 IN
    IF n = ctx.failAt
    THEN [ok |-> FALSE, ctx |-> [ctx EXCEPT !.attempts = n]]
    ELSE [ok |-> TRUE,
          ctx |-> [ctx EXCEPT !.attempts = n,
                              !.host = [ctx.host EXCEPT ![key] = dir],
                              !.events = Append(ctx.events, <<key, dir>>)]]

----------------------------------------------------------------------------
(* Controller *)

\* check_key with the new value taken from diff instead of input
check_key_from_diff(input, diff, button, key, ctx) ==
    IF BitAnd(diff, button) # 0
    THEN LET d == BitAnd(diff, button)
             r == Inject(ctx, key, IF d # 0 THEN "down" ELSE "up")
         IN  IF r.ok THEN [ok |-> TRUE, val |-> d, ctx |-> r.ctx]
                     ELSE [ok |-> FALSE, val |-> 0, ctx |-> r.ctx]
    ELSE [ok |-> TRUE, val |-> 0, ctx |-> ctx]

\* check_key testing the new value instead of the difference
check_key_pressed(input, diff, button, key, ctx) ==
    IF BitAnd(input, button) # 0
    THEN LET d == BitAnd(input, button)
             r == Inject(ctx, key, IF d # 0 THEN "down" ELSE "up")
         IN  IF r.ok THEN [ok |-> TRUE, val |-> d, ctx |-> r.ctx]
                     ELSE [ok |-> FALSE, val |-> 0, ctx |-> r.ctx]
    ELSE [ok |-> TRUE, val |-> 0, ctx |-> ctx]

check_key(input, diff, button, key, ctx) ==
    IF BitAnd(diff, button) # 0
    THEN LET d == BitAnd(input, button)
             r == Inject(ctx, key, IF d # 0 THEN "down" ELSE "up")
         IN  IF r.ok THEN [ok |-> TRUE, val |-> d, ctx |-> r.ctx]
                     ELSE [ok |-> FALSE, val |-> 0, ctx |-> r.ctx]
    ELSE [ok |-> TRUE, val |-> 0, ctx |-> ctx]

\* the chain  s |= self._check_key(...)?;  over a table, from entry k on
RECURSIVE HandleKeys(_, _, _, _, _, _)
HandleKeys(input, diff, table, k, s, ctx) ==
    IF k > Len(table)
    THEN [ok |-> TRUE, val |-> s, ctx |-> ctx]
    ELSE LET r == check_key(input, diff, table[k].bit, table[k].key, ctx) IN
         IF r.ok
         THEN HandleKeys(input, diff, table, k + 1, BitOr(s, r.val), r.ctx)
         ELSE [ok |-> FALSE, val |-> s, ctx |-> r.ctx]

handle_buttons(self, buttons, ctx) ==
    HandleKeys(buttons, BitXor(buttons, self.buttons), ButtonsTable, 1, 0, ctx)

\* the extra handler accumulating into the stored mask instead of 0
handle_extra_seeded(self, extra, ctx) ==
    HandleKeys(extra, BitXor(extra, self.extra), ExtraTable, 1, self.extra, ctx)

handle_extra(self, extra, ctx) ==
    HandleKeys(extra, BitXor(extra, self.extra), ExtraTable, 1, 0, ctx)

\* the dpad handler diffing against the stored extra mask
handle_dpad_vs_extra(self, dpad, ctx) ==
    LET cleaned == convert_dpad(dpad) IN
    HandleKeys(cleaned, BitXor(cleaned, self.extra), DpadTable, 1, 0, ctx)

handle_dpad(self, dpad, ctx) ==
    LET cleaned == convert_dpad(dpad) IN
    HandleKeys(cleaned, BitXor(cleaned, self.dpad), DpadTable, 1, 0, ctx)

\* clear_state resetting to the all-released state of State::new()
clear_state_zero(self) == [buttons |-> 0, extra |-> 0, dpad |-> 0]

clear_state(self) == [buttons |-> 255, extra |-> 255, dpad |-> 255]

\* update that restores the stored state when a handler fails
update_rollback(self, input, ctx) ==
    LET r1 == handle_buttons(self, input.buttons, ctx) IN
    IF ~r1.ok THEN [ok |-> FALSE, state |-> self, ctx |-> r1.ctx]
    ELSE
    LET s1 == [self EXCEPT !.buttons = r1.val]
        r2 == handle_extra(s1, input.extra, r1.ctx) IN
    IF ~r2.ok THEN [ok |-> FALSE, state |-> self, ctx |-> r2.ctx]
    ELSE
    LET s2 == [s1 EXCEPT !.extra = r2.val]
        r3 == handle_dpad(s2, input.dpad, r2.ctx) IN
    IF ~r3.ok THEN [ok |-> FALSE, state |-> self, ctx |-> r3.ctx]
    ELSE [ok |-> TRUE, state |-> [s2 EXCEPT !.dpad = r3.val], ctx |-> r3.ctx]

update(self, input, ctx) ==
    LET r1 == handle_buttons(self, input.buttons, ctx) IN
    IF ~r1.ok THEN [ok |-> FALSE, state |-> self, ctx |-> r1.ctx]
    ELSE
    LET s1 == [self EXCEPT !.buttons = r1.val]
        r2 == handle_extra(s1, input.extra, r1.ctx) IN
    IF ~r2.ok THEN [ok |-> FALSE, state |-> s1, ctx |-> r2.ctx]
    ELSE
    LET s2 == [s1 EXCEPT !.extra = r2.val]
        r3 == handle_dpad(s2, input.dpad, r2.ctx) IN
    IF ~r3.ok THEN [ok |-> FALSE, state |-> s2, ctx |-> r3.ctx]
    ELSE [ok |-> TRUE, state |-> [s2 EXCEPT !.dpad = r3.val], ctx |-> r3.ctx]

----------------------------------------------------------------------------
(* Snapshots fed to the Controller *)

Inputs ==
    { InputDefault,
      [buttons |-> 4, extra |-> 0,  dpad |-> 15],
      [buttons |-> 2, extra |-> 0,  dpad |-> 15],
      [buttons |-> 6, extra |-> 33, dpad |-> 1],
      [buttons |-> 0, extra |-> 1,  dpad |-> 0] }

----------------------------------------------------------------------------
(* Controller driven by any sequence of update and clear_state calls *)

NoOp == [op |-> "new", input |-> InputDefault, ok |-> TRUE]

\* no handler called on its own yet
NoCall == [grp |-> "none", input |-> 0, ret |-> 0]

\* open_target not called, no device enumerated
NoDiscovery == [devices |-> << >>, called |-> FALSE, some |-> FALSE, opened |-> 0,
                errors |-> 0]

NoCycle == [resync |-> FALSE, readOk |-> TRUE, input |-> InputDefault,
            ok |-> TRUE, updates |-> 0, clears |-> 0, loops |-> TRUE]

Record(e) ==
    /\ prev' = last
    /\ last' = e
    /\ nOps' = IF nOps > TraceLen THEN nOps ELSE nOps + 1
    /\ trace' = IF nOps < TraceLen THEN Append(trace, e) ELSE << >>

Init ==
    /\ state = StateNew
    /\ host = [k \in Keys |-> "up"]
    /\ events = << >>
    /\ last = NoOp
    /\ prev = NoOp
    /\ trace = << >>
    /\ nOps = 0
    /\ i = 0
    /\ cyc = NoCycle
    /\ window = << >>
    /\ stable = 0
    /\ det = NoCall
    /\ disc = NoDiscovery

Update(input, failAt) ==
    \E r \in {update(state, input, NewCtx(host, failAt))} :
    /\ state' = r.state
    /\ host' = r.ctx.host
    /\ events' = r.ctx.events
    /\ Record([op |-> "update", input |-> input, ok |-> r.ok])
    /\ UNCHANGED <<i, cyc, window, stable, det, disc>>

ClearState ==
    /\ state' = clear_state(state)
    /\ Record([op |-> "clear_state", input |-> InputDefault, ok |-> TRUE])
    /\ UNCHANGED <<host, events, i, cyc, window, stable, det, disc>>

Next ==
    \/ \E input \in Inputs, failAt \in 0..MaxFail : Update(input, failAt)
    \/ ClearState

Spec == Init /\ [][Next]_vars

----------------------------------------------------------------------------
(* The poll loop *)

ResyncPeriod == 7

\* the cadence test with the period off by one
resync_due_slow(c) == c % (ResyncPeriod + 1) = 0

\* if i % 7 == 0
resync_due(c) == c % ResyncPeriod = 0

wrapping_add(c, n) == (c + n) % Byte

\* the error arm of the read-failure path without its clear_state
after_update_read_ok_only(readOk, r) ==
    IF r.ok \/ ~readOk THEN r.state ELSE clear_state(r.state)

\* both arms of match read_input(device):  Ok(_) => continue, Err(_) => controller.clear_state()
after_update(readOk, r) ==
    IF r.ok THEN r.state ELSE clear_state(r.state)

\* snapshots a successful read delivers
PollInputs ==
    { [buttons |-> 4, extra |-> 0,  dpad |-> 15],
      [buttons |-> 2, extra |-> 33, dpad |-> 1] }

\* the read-failure arm taken as nothing to process: no update call
match_read_input_skip(self, readOk, input, ctx) ==
    IF readOk
    THEN LET r == update(self, input, ctx) IN
         [state |-> after_update(readOk, r), ctx |-> r.ctx, ok |-> r.ok, input |-> input,
          updates |-> 1, clears |-> IF r.ok THEN 0 ELSE 1, loops |-> TRUE]
    ELSE [state |-> self, ctx |-> ctx, ok |-> TRUE, input |-> InputDefault,
          updates |-> 0, clears |-> 0, loops |-> TRUE]

\* match read_input(device) { Ok(input) => update(input), Err(_) => update(Input::default()) }:
\* one update call on either arm, then the next iteration of the loop
match_read_input(self, readOk, input, ctx) ==
    LET snap == IF readOk THEN input ELSE InputDefault
        r == update(self, snap, ctx)
    IN  [state |-> after_update(readOk, r), ctx |-> r.ctx, ok |-> r.ok, input |-> snap,
         updates |-> 1, clears |-> IF r.ok THEN 0 ELSE 1, loops |-> TRUE]

\* one iteration of the loop of poll()
Poll(readOk, input, failAt) ==
    LET resync == resync_due(i)
        c1 == IF resync THEN clear_state(state) ELSE state
    IN
    \E p \in {match_read_input(c1, readOk, input, NewCtx(host, failAt))} :
        LET same == cyc.updates > 0 /\ p.input = cyc.input IN
        /\ cyc.loops
        /\ i' = wrapping_add(i, 1)
        /\ state' = p.state
        /\ host' = p.ctx.host
        /\ events' = p.ctx.events
        /\ cyc' = [resync |-> resync, readOk |-> readOk, input |-> p.input, ok |-> p.ok,
                   updates |-> p.updates,
                   clears |-> (IF resync THEN 1 ELSE 0) + p.clears,
                   loops |-> p.loops]
        /\ window' = IF Len(window) < ResyncPeriod THEN Append(window, resync)
                                                   ELSE Append(Tail(window), resync)
        /\ stable' = IF ~same THEN (IF p.ok THEN 1 ELSE 0)
                     ELSE IF stable >= ResyncPeriod THEN stable
                     ELSE IF p.ok THEN stable + 1 ELSE 0
        /\ UNCHANGED <<last, prev, trace, nOps, det, disc>>

NextPoll ==
    \E readOk \in BOOLEAN, failAt \in 0..MaxFail :
        \E input \in (IF readOk THEN PollInputs ELSE {InputDefault}) :
            Poll(readOk, input, failAt)

SpecPoll == Init /\ [][NextPoll]_vars

----------------------------------------------------------------------------
(* Vocabulary of the properties *)

\* the value the handlers diff for a group of a snapshot
GroupValue(input, grp) ==
    CASE grp = "buttons" -> input.buttons
      [] grp = "extra" -> input.extra
      [] grp = "dpad" -> convert_dpad(input.dpad)

GroupTable(grp) ==
    CASE grp = "buttons" -> ButtonsTable
      [] grp = "extra" -> ExtraTable
      [] grp = "dpad" -> DpadTable

Groups == {"buttons", "extra", "dpad"}

\* the mapped logical buttons: group, bit and key
Mapped ==
    UNION { { [grp |-> g, bit |-> GroupTable(g)[k].bit, key |-> GroupTable(g)[k].key] :
                k \in 1..Len(GroupTable(g)) } : g \in Groups }

\* logical button b is down in the snapshot
Pressed(input, b) == (GroupValue(input, b.grp) \div b.bit) % 2 = 1

EventsOf(key, dir) == {k \in 1..Len(events) : events[k] = <<key, dir>>}

EventsOfKey(key) == EventsOf(key, "down") \cup EventsOf(key, "up")

OkUpdate(e) == e.op = "update" /\ e.ok

\* every operation since Controller::new() is recorded and no injection failed
CleanTrace ==
    /\ Len(trace) = nOps
    /\ \A k \in 1..Len(trace) : trace[k].ok

----------------------------------------------------------------------------
(* Properties of the Controller under update / clear_state *)

\* C1: no stuck keys. After a successful update (no injection having failed
\* before), no mapped key is down on the host whose logical button is clear
\* in the snapshot just processed; and a button set in one processed snapshot
\* and clear in the next gets a key-up from the update for the latter.
C1_NoStuckKeys ==
    (CleanTrace /\ OkUpdate(last)) =>
        /\ \A b \in Mapped : host[b.key] = "down" => Pressed(last.input, b)
        /\ OkUpdate(prev) =>
              \A b \in Mapped :
                  (Pressed(prev.input, b) /\ ~Pressed(last.input, b))
                      => EventsOf(b.key, "up") # {}

\* C2: no duplicate events. With two successful updates in a row (no
\* clear_state between them), the later one emits an event for a mapped button
\* only if the button's value differs between the two snapshots.
C2_NoDuplicateEvents ==
    (OkUpdate(prev) /\ OkUpdate(last)) =>
        \A b \in Mapped :
            EventsOfKey(b.key) # {} =>
                (Pressed(last.input, b) # Pressed(prev.input, b))

\* C3: idempotence of update. When update(s) succeeded and update(s) is called
\* again with the same snapshot, the second call emits no key event.
C3_Idempotent ==
    (OkUpdate(prev) /\ last.op = "update" /\ last.input = prev.input) =>
        events = << >>

\* a snapshot whose only pressed control is the button with this bit
OnlyButton(input, bit) == input = [buttons |-> bit, extra |-> 0, dpad |-> InputDefault.dpad]

\* C4: end-to-end scenario from a new Controller, all injections succeeding:
\* update(only A) emits exactly key-down A; the identical update emits nothing;
\* update(only B) then emits key-up A followed by key-down B.
C4_Scenario ==
    \A a, b \in {ButtonsTable[k] : k \in 1..Len(ButtonsTable)} :
        (/\ a # b
         /\ CleanTrace
         /\ nOps >= 1
         /\ \A k \in 1..Len(trace) : trace[k].op = "update"
         /\ OnlyButton(trace[1].input, a.bit)
         /\ nOps >= 2 => trace[2].input = trace[1].input) =>
            /\ nOps = 1 => events = << <<a.key, "down">> >>
            /\ nOps = 2 => events = << >>
            /\ (nOps = 3 /\ OnlyButton(trace[3].input, b.bit)) =>
                   events = << <<a.key, "up">>, <<b.key, "down">> >>

\* C5: after a successful update each stored bitmask equals the snapshot's
\* value for the group restricted to the mapped bits.
C5_StateEqualsSnapshot ==
    OkUpdate(last) =>
        /\ state.buttons = last.input.buttons
        /\ state.extra = BitAnd(last.input.extra, 31)
        /\ state.dpad = BitAnd(convert_dpad(last.input.dpad), 15)

\* C6: full resync after reset. The successful update that immediately follows
\* clear_state emits a key-down for every mapped button pressed in its snapshot.
C6_FullResync ==
    (prev.op = "clear_state" /\ OkUpdate(last)) =>
        \A b \in Mapped : Pressed(last.input, b) => EventsOf(b.key, "down") # {}

\* C7 as stated: update(Input::default()) right after clear_state emits no key
\* event in the buttons and extra groups and no key-down for a dpad direction.
C7_NeutralSilent ==
    (prev.op = "clear_state" /\ OkUpdate(last) /\ last.input = InputDefault) =>
        \A b \in Mapped :
            IF b.grp = "dpad" THEN EventsOf(b.key, "down") = {}
                              ELSE EventsOfKey(b.key) = {}

\* C7 amended: update(Input::default()) right after clear_state emits no
\* key-down in any group, and exactly one key-up for every mapped key.
C7_NeutralOnlyKeyUps ==
    (prev.op = "clear_state" /\ OkUpdate(last) /\ last.input = InputDefault) =>
        \A b \in Mapped :
            /\ EventsOf(b.key, "down") = {}
            /\ Cardinality(EventsOf(b.key, "up")) = 1

C7_Witness ==
    /\ prev.op = "clear_state"
    /\ OkUpdate(last)
    /\ last.input = InputDefault
    /\ Len(events) = Cardinality(Mapped)

----------------------------------------------------------------------------
(* Properties of the poll loop *)

\* C8: periodic resync cadence. In every window of ResyncPeriod consecutive
\* iterations the counter-triggered clear_state fires on exactly one
\* iteration, also across the wrap of the u8 counter from 255 to 0.
C8_OneResyncPerWindow ==
    Len(window) = ResyncPeriod =>
        Cardinality({k \in 1..Len(window) : window[k]}) = 1

\* C9: bounded staleness. Once the same snapshot has been processed over
\* ResyncPeriod consecutive cycles without an injection failure, every mapped
\* key is down on the host exactly when its logical button is down in the
\* snapshot, and this stays so while the snapshot remains unchanged.
C9_BoundedStaleness ==
    stable >= ResyncPeriod =>
        \A b \in Mapped : (host[b.key] = "down") <=> Pressed(cyc.input, b)

C9_Witness ==
    /\ stable >= ResyncPeriod
    /\ \E b \in Mapped : Pressed(cyc.input, b)
    /\ \E b \in Mapped : b.grp = "extra" /\ ~Pressed(cyc.input, b)

\* C10: error-triggered resync. Whenever the update call of an iteration
\* returned an error, on either read path, clear_state ran in that iteration
\* after it, so the next update diffs against buttons = extra = dpad = 255.
C10_ErrorResync ==
    (cyc.updates > 0 /\ ~cyc.ok) =>
        /\ state = [buttons |-> 255, extra |-> 255, dpad |-> 255]
        /\ cyc.clears >= 1

C10_Witness ==
    /\ cyc.updates > 0
    /\ ~cyc.ok
    /\ ~cyc.readOk
    /\ ~cyc.resync

----------------------------------------------------------------------------
(* What one handler call is expected to do, stated on the bits themselves *)

BitSet(x, bit) == (x \div bit) % 2 = 1

Changed(old, new, bit) == BitSet(old, bit) # BitSet(new, bit)

\* the events a handler injects for the stored mask old and the observed
\* mask new, in table order, when no injection fails
ExpectedEvents(old, new, table) ==
    LET sel == SelectSeq(table, LAMBDA e : Changed(old, new, e.bit)) IN
    [k \in 1..Len(sel) |-> <<sel[k].key, IF BitSet(new, sel[k].bit) THEN "down" ELSE "up">>]

RECURSIVE ExpectedReturnFrom(_, _, _, _)
ExpectedReturnFrom(old, new, table, k) ==
    IF k > Len(table) THEN 0
    ELSE (IF Changed(old, new, table[k].bit) /\ BitSet(new, table[k].bit)
          THEN table[k].bit ELSE 0)
         + ExpectedReturnFrom(old, new, table, k + 1)

\* the mask a handler returns when no injection fails
ExpectedReturn(old, new, table) == ExpectedReturnFrom(old, new, table, 1)

\* the host key state after the events evs, each key occurring at most once
HostAfter(h, evs) ==
    [key \in Keys |->
        IF \E k \in 1..Len(evs) : evs[k][1] = key
        THEN (CHOOSE dir \in {"down", "up"} : \E k \in 1..Len(evs) : evs[k] = <<key, dir>>)
        ELSE h[key]]

----------------------------------------------------------------------------
(* Further properties of the Controller under update / clear_state *)

\* C11: partial commit on injection failure. When an injection fails in group
\* k of an update, the injected events are exactly those that precede the
\* failing one (no injection after it, in group k or later), the stored masks
\* of the groups before k hold their handlers' returned values, and the masks
\* of group k and of the later groups are unchanged.
C11_PartialCommit ==
    [][ (last'.op = "update" /\ ~last'.ok) =>
          LET in == last'.input
              eb == ExpectedEvents(state.buttons, in.buttons, ButtonsTable)
              ee == ExpectedEvents(state.extra, in.extra, ExtraTable)
              ed == ExpectedEvents(state.dpad, GroupValue(in, "dpad"), DpadTable)
              n  == Len(events')
              k  == IF n < Len(eb) THEN 1 ELSE IF n < Len(eb) + Len(ee) THEN 2 ELSE 3
          IN  /\ n < Len(eb) + Len(ee) + Len(ed)
              /\ events' = SubSeq(eb \o ee \o ed, 1, n)
              /\ host' = HostAfter(host, events')
              /\ state'.buttons = IF k > 1
                                  THEN ExpectedReturn(state.buttons, in.buttons, ButtonsTable)
                                  ELSE state.buttons
              /\ state'.extra = IF k > 2
                                THEN ExpectedReturn(state.extra, in.extra, ExtraTable)
                                ELSE state.extra
              /\ state'.dpad = state.dpad ]_vars

\* a failure in the extra group after the buttons group changed its mask
\* from 4 to 2 with the single injection key-down O
C11_Witness ==
    /\ last.op = "update"
    /\ ~last.ok
    /\ last.input = [buttons |-> 6, extra |-> 33, dpad |-> 1]
    /\ events = << <<"O", "down">> >>
    /\ state.buttons = 2

----------------------------------------------------------------------------
(* Further properties of the poll loop *)

\* C12: every iteration, whatever the read and injection outcomes, calls
\* update exactly once, with the decoded report on read success and with the
\* neutral snapshot (buttons 0, extra 0, dpad off) on read failure, and the
\* loop then goes on to a next iteration (cyc.loops is the guard of Poll).
C12_EveryCycleProcessed ==
    /\ cyc.loops
    /\ Len(window) > 0 =>
          /\ cyc.updates = 1
          /\ cyc.readOk => cyc.input \in PollInputs
          /\ ~cyc.readOk =>
                /\ cyc.input.buttons = 0
                /\ cyc.input.extra = 0
                /\ convert_dpad(cyc.input.dpad) = DpadOff

\* a read failure whose update also failed, after an earlier iteration
C12_Witness ==
    /\ Len(window) > 1
    /\ ~cyc.readOk
    /\ ~cyc.ok
    /\ cyc.updates = 1

----------------------------------------------------------------------------
(* One handler call on its own, for every stored mask and every observed byte *)

InitDetect ==
    /\ \E old \in 0..(Byte - 1) : state = [buttons |-> old, extra |-> old, dpad |-> old]
    /\ host = [k \in Keys |-> "up"]
    /\ events = << >>
    /\ last = NoOp
    /\ prev = NoOp
    /\ trace = << >>
    /\ nOps = 0
    /\ i = 0
    /\ cyc = NoCycle
    /\ window = << >>
    /\ stable = 0
    /\ det = NoCall
    /\ disc = NoDiscovery

Called(grp, v, r) ==
    /\ det.grp = "none"
    /\ det' = [grp |-> grp, input |-> v, ret |-> r.val]
    /\ host' = r.ctx.host
    /\ events' = r.ctx.events
    /\ UNCHANGED <<state, last, prev, trace, nOps, i, cyc, window, stable, disc>>

HandleButtons(v) == Called("buttons", v, handle_buttons(state, v, NewCtx(host, 0)))

HandleExtra(v) == Called("extra", v, handle_extra(state, v, NewCtx(host, 0)))

HandleDpad(v) == Called("dpad", v, handle_dpad(state, v, NewCtx(host, 0)))

NextDetect ==
    \E v \in 0..(Byte - 1) :
        \/ HandleButtons(v)
        \/ HandleExtra(v)
        \/ HandleDpad(v)

SpecDetect == InitDetect /\ [][NextDetect]_vars

\* the bitmask a handler observes for the byte v of its group
Observed(grp, v) == IF grp = "dpad" THEN convert_dpad(v) ELSE v

\* C13: transition detector. For every stored mask old, every observed mask new
\* and every mapped bit b of the group, the handler performs exactly one
\* injection for b when old and new differ in b and none otherwise, key-down
\* when b is set in new and key-up when it is clear.
C13_TransitionDetector ==
    det.grp # "none" =>
        LET table == GroupTable(det.grp)
            old == state[det.grp]
            new == Observed(det.grp, det.input)
            changed == {k \in 1..Len(table) : Changed(old, new, table[k].bit)}
        IN  /\ Len(events) = Cardinality(changed)
            /\ \A k \in 1..Len(table) :
                  IF k \in changed
                  THEN /\ Cardinality(EventsOfKey(table[k].key)) = 1
                       /\ EventsOf(table[k].key,
                                   IF BitSet(new, table[k].bit) THEN "down" ELSE "up") # {}
                  ELSE EventsOfKey(table[k].key) = {}

\* the extra handler with a press and a release in one call
C13_Witness ==
    /\ det.grp = "extra"
    /\ EventsOf("L", "down") # {}
    /\ EventsOf("K", "up") # {}
    /\ EventsOfKey("J") = {}

\* the directions of the hat codes
Directions(code) ==
    CASE code = 0 -> {"U"}
      [] code = 1 -> {"U", "R"}
      [] code = 2 -> {"R"}
      [] code = 3 -> {"D", "R"}
      [] code = 4 -> {"D"}
      [] code = 5 -> {"D", "L"}
      [] code = 6 -> {"L"}
      [] code = 7 -> {"U", "L"}
      [] OTHER -> {}

\* the bit and the key the dpad handler tests for a direction
DirBit == [U |-> 1, R |-> 2, D |-> 4, L |-> 8]
DirKey == [U |-> "W", R |-> "D", D |-> "S", L |-> "A"]

\* C14: dpad normalization is total over the 256 byte values: codes 0..7 give
\* up, up+right, right, down+right, down, down+left, left, up+left, every
\* other value gives no direction, and the bits are the ones the dpad handler
\* tests (from a stored mask of 0 it presses exactly the keys of these directions).
C14_DpadNormalization ==
    det.grp = "dpad" =>
        LET dirs == Directions(det.input)
            mask == (IF "U" \in dirs THEN DirBit.U ELSE 0) + (IF "R" \in dirs THEN DirBit.R ELSE 0)
                    + (IF "D" \in dirs THEN DirBit.D ELSE 0) + (IF "L" \in dirs THEN DirBit.L ELSE 0)
        IN  /\ convert_dpad(det.input) = mask
            /\ state.dpad = 0 =>
                  /\ det.ret = mask
                  /\ {events[k][1] : k \in 1..Len(events)} = {DirKey[d] : d \in dirs}
                  /\ \A k \in 1..Len(events) : events[k][2] = "down"

\* the diagonal up+left from a stored mask of 0
C14_Witness ==
    /\ det.grp = "dpad"
    /\ det.input = 7
    /\ state.dpad = 0
    /\ det.ret = 9
    /\ Len(events) = 2

----------------------------------------------------------------------------
(* Order and independence of the groups within one update *)

\* position of a key's group in update: buttons, extra, dpad
GroupRank(key) ==
    IF key \in TableKeys(ButtonsTable) THEN 1
    ELSE IF key \in TableKeys(ExtraTable) THEN 2 ELSE 3

\* the events of evs whose key belongs to the table
EventsOfGroup(evs, table) == SelectSeq(evs, LAMBDA e : e[1] \in TableKeys(table))

IsPrefix(a, b) == Len(a) <= Len(b) /\ a = SubSeq(b, 1, Len(a))

\* C15: within one update every buttons event is injected before every extra
\* event and every extra event before every dpad event, and the events of a
\* group are those of its own snapshot byte diffed against its own stored
\* mask (all of them when the update succeeds, a prefix when it fails).
C15_EventOrder ==
    [][ last'.op = "update" =>
          LET in == last'.input
              eb == ExpectedEvents(state.buttons, in.buttons, ButtonsTable)
              ee == ExpectedEvents(state.extra, in.extra, ExtraTable)
              ed == ExpectedEvents(state.dpad, GroupValue(in, "dpad"), DpadTable)
          IN  /\ \A j, k \in 1..Len(events') :
                    j < k => GroupRank(events'[j][1]) <= GroupRank(events'[k][1])
              /\ IsPrefix(EventsOfGroup(events', ButtonsTable), eb)
              /\ IsPrefix(EventsOfGroup(events', ExtraTable), ee)
              /\ IsPrefix(EventsOfGroup(events', DpadTable), ed)
              /\ last'.ok => /\ EventsOfGroup(events', ButtonsTable) = eb
                             /\ EventsOfGroup(events', ExtraTable) = ee
                             /\ EventsOfGroup(events', DpadTable) = ed ]_vars

\* a successful update with events in all three groups
C15_Witness ==
    /\ OkUpdate(last)
    /\ EventsOfGroup(events, ButtonsTable) # << >>
    /\ EventsOfGroup(events, ExtraTable) # << >>
    /\ EventsOfGroup(events, DpadTable) # << >>
    /\ state.extra # state.dpad

----------------------------------------------------------------------------
(* Device discovery: open_target *)

\* let target = "HORIPAD S"
Target == "HORIPAD S"

\* a device whose product_string is None
NoProduct == "<none>"

Products == {NoProduct, Target, "other"}

DeviceLists == UNION {[1..n -> Products] : n \in 0..MaxDevices}

\* the for loop of open_target from device k on; openOk is the outcome of
\* open_device should it be called.  some: Some(device) is returned; opened:
\* position of the device open_device was called on (0: none); errors: number
\* of error! messages logged.
RECURSIVE scan_devices(_, _, _, _)
scan_devices(devices, target, k, openOk) ==
    IF k > Len(devices)
    THEN [some |-> FALSE, opened |-> 0, errors |-> 1]
    ELSE IF devices[k] = NoProduct
    THEN [some |-> FALSE, opened |-> 0, errors |-> 0]
    ELSE IF devices[k] = target
    THEN IF openOk THEN [some |-> TRUE, opened |-> k, errors |-> 0]
                   ELSE [some |-> FALSE, opened |-> k, errors |-> 1]
    ELSE scan_devices(devices, target, k + 1, openOk)

open_target(devices, target, openOk) == scan_devices(devices, target, 1, openOk)

InitOpen ==
    /\ state = StateNew
    /\ host = [k \in Keys |-> "up"]
    /\ events = << >>
    /\ last = NoOp
    /\ prev = NoOp
    /\ trace = << >>
    /\ nOps = 0
    /\ i = 0
    /\ cyc = NoCycle
    /\ window = << >>
    /\ stable = 0
    /\ det = NoCall
    /\ \E d \in DeviceLists : disc = [NoDiscovery EXCEPT !.devices = d]

OpenTarget(openOk) ==
    LET r == open_target(disc.devices, Target, openOk) IN
    /\ ~disc.called
    /\ disc' = [devices |-> disc.devices, called |-> TRUE, some |-> r.some,
                opened |-> r.opened, errors |-> r.errors]
    /\ UNCHANGED <<state, host, events, last, prev, trace, nOps, i, cyc, window, stable, det>>

NextOpen == \E openOk \in BOOLEAN : OpenTarget(openOk)

SpecOpen == InitOpen /\ [][NextOpen]_vars

\* C16: device discovery. Whenever a device whose product string equals the
\* target is enumerated, open_target attempts to open exactly the first such
\* device, and whenever it returns none it has logged an error message.
C16_Discovery ==
    disc.called =>
        LET matches == {k \in 1..Len(disc.devices) : disc.devices[k] = Target} IN
        /\ matches # {} =>
              /\ disc.opened \in matches
              /\ \A k \in matches : disc.opened <= k
        /\ ~disc.some => disc.errors >= 1

----------------------------------------------------------------------------
(* What the stored masks hold *)

Bits == {1, 2, 4, 8, 16, 32, 64, 128}

\* every bit set in a is set in b and lies in mask
SubsetOf(a, b, mask) == \A bit \in Bits : BitSet(a, bit) => (BitSet(b, bit) /\ BitSet(mask, bit))

Sentinel(st) == st.extra = 255 \/ st.dpad = 255

\* C17: after every successful update each stored mask is a subset of the bits
\* down in the snapshot's group and of the group's mapped bits, so no stored
\* bit marks as down a button released in the snapshot; and 255 is in extra or
\* dpad only from a clear_state until the next successful update.
C17_StoredSubset ==
    [][ /\ OkUpdate(last') =>
              /\ SubsetOf(state'.buttons, last'.input.buttons, 255)
              /\ SubsetOf(state'.extra, last'.input.extra, 31)
              /\ SubsetOf(state'.dpad, GroupValue(last'.input, "dpad"), 15)
              /\ \A b \in Mapped : BitSet(state'[b.grp], b.bit) => Pressed(last'.input, b)
        /\ Sentinel(state') =>
              \/ last'.op = "clear_state"
              \/ last'.op = "update" /\ ~last'.ok /\ Sentinel(state) ]_vars

\* a successful update that stored a mapped bit and dropped an unmapped one
C17_Witness ==
    /\ OkUpdate(last)
    /\ last.input.extra = 33
    /\ state.extra = 1
    /\ state.dpad = 3

\* C18: a successful update right after clear_state emits exactly one key-up
\* for every mapped button released in its snapshot, no key-down at all, and
\* leaves the three stored masks at 0 whatever the snapshot.
C18_PostReset ==
    (prev.op = "clear_state" /\ OkUpdate(last)) =>
        /\ \A b \in Mapped :
              /\ EventsOf(b.key, "down") = {}
              /\ Cardinality(EventsOf(b.key, "up")) = (IF Pressed(last.input, b) THEN 0 ELSE 1)
        /\ Len(events) = Cardinality({b \in Mapped : ~Pressed(last.input, b)})
        /\ state = [buttons |-> 0, extra |-> 0, dpad |-> 0]

\* after clear_state, a snapshot with pressed buttons in all three groups
C18_Witness ==
    /\ prev.op = "clear_state"
    /\ OkUpdate(last)
    /\ last.input = [buttons |-> 6, extra |-> 33, dpad |-> 1]
    /\ Len(events) = 12

====
